---- MODULE Spec2Model ----
(***************************************************************************)
(* Model of backend/main.py: the issue proxy's fetch / score / sort /      *)
(* paginate pipeline.                                                      *)
(*                                                                         *)
(* Encoding of Python values                                               *)
(*   - An optional value (a dict key that may be missing, a variable that  *)
(*     may be None) is a sequence of length <= 1: << >> is "missing/None", *)
(*     <<v>> is "present with value v".                                    *)
(*   - Text that the code takes apart (the Link header, URLs) is a         *)
(*     sequence of one-character strings.  Text the code only compares or  *)
(*     copies (label names, detail messages) is a TLA+ string.             *)
(*   - An issue body is represented by its length, the only thing the code *)
(*     reads of it.                                                        *)
(*   - created_at is a sequence of digit codes compared lexically, as      *)
(*     Python compares the ISO-8601 strings.                               *)
(*   - Scores are counted in tenths (3.0 is 30, 0.3 is 3).  For the label  *)
(*     weights and comment counts of the code the float results are        *)
(*     ordered and equal exactly as these integers are.                    *)
(***************************************************************************)
EXTENDS Integers, Sequences, FiniteSets, TLC

VARIABLES
    GITHUB_TOKEN,      \* module global, read from the environment at import
    upstream,          \* the pages the upstream API serves for the repository
    pc,                \* "idle" | "loop" | "done"
    query,             \* the request's sort_by, direction, limit, offset
    url,               \* get_all_github_issues: optional URL of the next request
    is_first_request,  \* get_all_github_issues: local flag
    all_issues,        \* get_all_github_issues: accumulator
    requests,          \* history: every upstream request sent, in order
    served,            \* history: index of the upstream page that answered each
    scored_issues,     \* list_repo_issues: local, after filtering and scoring
    sorted_issues,     \* list_repo_issues: local, after sorted()
    response,          \* optional HTTP response of list_repo_issues
    score_input,       \* scoring harness: the issue dict under test
    score_out          \* scoring harness: optional results of the two functions

vars == <<GITHUB_TOKEN, upstream, pc, query, url, is_first_request, all_issues,
          requests, served, scored_issues, sorted_issues, response,
          score_input, score_out>>

---------------------------------------------------------------------------
(* Bounds of the model *)

MaxPages == 3
MaxIssues == 3
MaxPerPage == 2
MaxOffset == 4
MaxLabels == 2
MaxComments == 11

---------------------------------------------------------------------------
(* Generic helpers *)

Min(a, b) == IF a < b THEN a ELSE b

Max(a, b) == IF a > b THEN a ELSE b

None == << >>

Some(v) == <<v>>

Reverse(s) == [i \in 1..Len(s) |-> s[Len(s) + 1 - i]]

RECURSIVE Concat(_)
Concat(ss) == IF ss = << >> THEN << >> ELSE Head(ss) \o Concat(Tail(ss))

SeqsUpTo(S, n) == UNION {[1..k -> S] : k \in 0..n}

\* s[start:stop] of Python for 0 <= start <= stop
Slice(s, start, stop) == SubSeq(s, Min(start, Len(s)) + 1, Min(stop, Len(s)))

---------------------------------------------------------------------------
(* Scoring engine *)

LabelNames == {"bug", "BUG", "critical", "High Priority", "enhancement",
               "feature", "Good First Issue", "help wanted", "docs"}

\* str.lower() on the label names of the model
Lower(s) ==
    CASE s = "BUG" -> "bug"
      [] s = "High Priority" -> "high priority"
      [] s = "Good First Issue" -> "good first issue"
      [] s = "bug" -> "bug"
      [] s = "critical" -> "critical"
      [] s = "enhancement" -> "enhancement"
      [] s = "feature" -> "feature"
      [] s = "help wanted" -> "help wanted"
      [] s = "docs" -> "docs"

\* issue.get(key, default) for an optional field
Get(field, default) == IF field = None THEN default ELSE field[1]

\* {label["name"].lower() for label in issue.get("labels", [])}
LabelSet(issue) ==
    LET ls == Get(issue.labels, << >>)
    IN  {Lower(ls[i].name) : i \in 1..Len(ls)}

\* len(issue.get("body", "") or "")
BodyLen(issue) ==
    LET b == Get(issue.body, Some(0))
    IN  IF b = None THEN 0 ELSE b[1]

PriorityCommentsNoCap(issue) == Get(issue.comments, 0) * 3

\* min(comments, 10) * 0.3, in tenths
PriorityComments(issue) == Min(Get(issue.comments, 0), 10) * 3

calculate_priority_score(issue) ==
    LET labels == LabelSet(issue)
        s1 == IF "bug" \in labels THEN 30 ELSE 0
        s2 == s1 + (IF "critical" \in labels \/ "high priority" \in labels
                    THEN 40 ELSE 0)
        s3 == s2 + (IF "enhancement" \in labels \/ "feature" \in labels
                    THEN 10 ELSE 0)
    IN  s3 + PriorityComments(issue)

compute_friendliness_score(issue) ==
    LET labels == LabelSet(issue)
        comments == Get(issue.comments, 0)
        s1 == IF "good first issue" \in labels \/ "help wanted" \in labels
              THEN 30 ELSE 0
        s2 == s1 - (IF "bug" \in labels THEN 10 ELSE 0)
        s3 == s2 - (IF comments > 5 THEN 20 ELSE 0)
        s4 == s3 + (IF BodyLen(issue) > 300 THEN 10 ELSE 0)
    IN  Max(s4, 0)

---------------------------------------------------------------------------
(* Link header: formatting by the upstream, parsing by parse_link_header *)

Chars_next == <<"n", "e", "x", "t">>

Chars_prev == <<"p", "r", "e", "v">>

Chars_last == <<"l", "a", "s", "t">>

Chars_first == <<"f", "i", "r", "s", "t">>

\* the literal between the two groups of the pattern: >; rel="
RelInfix == <<">", ";", " ", "r", "e", "l", "=", "\"">>

\* the separator of str.split(', ')
PartSep == <<",", " ">>

\* one link-value as the upstream writes it: <url>; rel="name"
LinkValue(link) == <<"<">> \o link.url \o RelInfix \o link.rel \o <<"\"">>

RECURSIVE JoinParts(_)
JoinParts(parts) ==
    IF Len(parts) = 1 THEN parts[1]
    ELSE parts[1] \o PartSep \o JoinParts(Tail(parts))

\* the Link header value the upstream sends for a non-empty list of links
FormatLinkHeader(links) ==
    JoinParts([i \in 1..Len(links) |-> LinkValue(links[i])])

\* whether lit occurs in s at position p
OccursAt(s, lit, p) ==
    /\ p >= 1
    /\ p + Len(lit) - 1 <= Len(s)
    /\ \A k \in 1..Len(lit) : s[p + k - 1] = lit[k]

\* link_header.split(', ')
RECURSIVE SplitParts(_)
SplitParts(s) ==
    LET hits == {p \in 1..Len(s) : OccursAt(s, PartSep, p)}
    IN  IF hits = {} THEN <<s>>
        ELSE LET p == CHOOSE h \in hits : \A g \in hits : h <= g
             IN  <<SubSeq(s, 1, p - 1)>>
                 \o SplitParts(SubSeq(s, p + Len(PartSep), Len(s)))

\* re.match(r'<(.*)>; rel="(.*)"', part): the optional pair of groups.
\* Both groups are greedy: the first ends at the last >; rel=" that still
\* has a closing quote after it, the second at the last quote of the part.
MatchLink(part) ==
    LET infixes == {p \in 2..Len(part) :
                      /\ OccursAt(part, RelInfix, p)
                      /\ \E q \in (p + Len(RelInfix))..Len(part) : part[q] = "\""}
    IN  IF Len(part) = 0 \/ part[1] # "<" \/ infixes = {} THEN None
        ELSE LET p == CHOOSE h \in infixes : \A g \in infixes : g <= h
                 quotes == {q \in (p + Len(RelInfix))..Len(part) : part[q] = "\""}
                 q == CHOOSE h \in quotes : \A g \in quotes : g <= h
             IN  Some([url |-> SubSeq(part, 2, p - 1),
                       rel |-> SubSeq(part, p + Len(RelInfix), q - 1)])

\* links[rel] = url on a dict kept as a set of <<key, value>> pairs
DictSet(d, k, v) == {e \in d : e[1] # k} \cup {<<k, v>>}

\* links.get(k)
DictGet(d, k) ==
    IF \E e \in d : e[1] = k THEN Some((CHOOSE e \in d : e[1] = k)[2]) ELSE None

RECURSIVE FoldParts(_, _)
FoldParts(parts, links) ==
    IF parts = << >> THEN links
    ELSE LET m == MatchLink(Head(parts))
         IN  FoldParts(Tail(parts),
                       IF m = None THEN links
                       ELSE DictSet(links, m[1].rel, m[1].url))

\* headers: optional Link header value
parse_link_header(headers) ==
    IF headers.link # None
    THEN FoldParts(SplitParts(headers.link[1]), {})
    ELSE {}

---------------------------------------------------------------------------
(* Raw issues and the upstream API *)

\* created_at values as digit sequences in lexical = chronological order
T_early == <<0, 9>>

T_mid == <<1, 0>>

T_late == <<1, 1>>

\* issue contents the upstream may hold (id and number are given by position)
P_bug ==
    [created_at |-> T_early, labels |-> Some(<<[name |-> "bug"]>>),
     comments |-> Some(0), body |-> Some(Some(20)), pull_request |-> None]

P_gfi ==
    [created_at |-> T_mid, labels |-> Some(<<[name |-> "Good First Issue"]>>),
     comments |-> Some(0), body |-> Some(Some(350)), pull_request |-> None]

P_crit ==
    [created_at |-> T_early,
     labels |-> Some(<<[name |-> "critical"], [name |-> "BUG"]>>),
     comments |-> Some(6), body |-> Some(None), pull_request |-> None]

P_pr ==
    [created_at |-> T_late, labels |-> Some(<<[name |-> "bug"]>>),
     comments |-> Some(12), body |-> Some(Some(20)),
     pull_request |-> Some("pulls")]

Profiles == {P_bug, P_gfi, P_crit, P_pr}

\* the g-th issue the upstream lists: newest first, so ids descend
MakeIssue(profile, g) ==
    [id |-> 100 - g, number |-> 50 - g, created_at |-> profile.created_at,
     labels |-> profile.labels, comments |-> profile.comments,
     body |-> profile.body, pull_request |-> profile.pull_request]

RECURSIVE TotalLen(_)
TotalLen(ss) == IF ss = << >> THEN 0 ELSE Len(Head(ss)) + TotalLen(Tail(ss))

\* page bodies from per-page profile lists, numbering the issues in fetch order
NumberPages(pp) ==
    [k \in 1..Len(pp) |->
        [i \in 1..Len(pp[k]) |->
            MakeIssue(pp[k][i], TotalLen(SubSeq(pp, 1, k - 1)) + i)]]

Owner == <<"o", "w", "n">>

Repo == <<"r", "e", "p">>

GITHUB_API_BASE == <<"h", "t", "t", "p", "s", ":", "/", "/", "a", "p", "i">>

\* f"{GITHUB_API_BASE}/repos/{owner}/{repo}/issues"
IssuesUrl(owner, repo) ==
    GITHUB_API_BASE \o <<"/", "r", "e", "p", "o", "s", "/">> \o owner
        \o <<"/">> \o repo \o <<"/", "i", "s", "s", "u", "e", "s">>

Digit(k) == <<"0", "1", "2", "3", "4", "5", "6", "7", "8", "9">>[k + 1]

\* the URL under which the upstream serves page k
PageUrl(k) ==
    IF k = 1 THEN IssuesUrl(Owner, Repo)
    ELSE IssuesUrl(Owner, Repo) \o <<"?", "p", "a", "g", "e", "=", Digit(k)>>

\* the link relations the upstream advertises on page k of n
PageLinks(k, n) ==
    LET L(j, rel) == [url |-> PageUrl(j), rel |-> rel]
    IN  IF n = 1 THEN << >>
        ELSE IF k = 1 THEN <<L(2, Chars_next), L(n, Chars_last)>>
        ELSE IF k = n THEN <<L(k - 1, Chars_prev), L(1, Chars_first)>>
        ELSE <<L(k - 1, Chars_prev), L(k + 1, Chars_next),
               L(n, Chars_last), L(1, Chars_first)>>

\* an upstream of Len(bodies) pages; fail is None or Some([page, status])
MakeUpstream(bodies, fail) ==
    [k \in 1..Len(bodies) |->
        IF fail # None /\ fail[1].page = k
        THEN [url |-> PageUrl(k), status |-> fail[1].status,
              body |-> << >>, links |-> << >>]
        ELSE [url |-> PageUrl(k), status |-> 200,
              body |-> bodies[k], links |-> PageLinks(k, Len(bodies))]]

\* the upstream cuts a list of issues into pages of at most MaxPerPage
Chunks(issues) ==
    LET n == IF Len(issues) = 0 THEN 1
             ELSE (Len(issues) + MaxPerPage - 1) \div MaxPerPage
    IN  [k \in 1..n |->
            SubSeq(issues, (k - 1) * MaxPerPage + 1,
                   Min(k * MaxPerPage, Len(issues)))]

\* index of the page answering a request, 0 when the URL is unknown
Serve(pages, req) ==
    IF \E k \in 1..Len(pages) : pages[k].url = req.url
    THEN CHOOSE k \in 1..Len(pages) : pages[k].url = req.url
    ELSE 0

\* the HTTP response for page k (0: not found)
ResponseOf(pages, k) ==
    IF k = 0
    THEN [status_code |-> 404, json |-> << >>, headers |-> [link |-> None]]
    ELSE [status_code |-> pages[k].status, json |-> pages[k].body,
          headers |-> [link |-> IF pages[k].links = << >> THEN None
                                ELSE Some(FormatLinkHeader(pages[k].links))]]

---------------------------------------------------------------------------
(* Pagination-aware fetcher: get_all_github_issues *)

\* Python truthiness of an optional string or sequence
Truthy(opt) == opt # None /\ opt[1] # << >> /\ opt[1] # ""

TokenTruthy(token) == token # None /\ token[1] # ""

\* the request headers; the Authorization value is <<scheme, token>>
RequestHeaders(token) ==
    [Accept |-> "application/vnd.github+json",
     Authorization |-> IF TokenTruthy(token)
                       THEN Some(<<"Bearer", token[1]>>) ELSE None]

\* params of the request: given on the first request only
RequestParams(first) ==
    IF first THEN Some([state |-> "open", per_page |-> 100]) ELSE None

Detail403Token ==
    "GitHub API request failed: 403 Forbidden. This could be due to an invalid token or insufficient permissions."

Detail403RateLimit ==
    "GitHub API rate limit exceeded. Please set a GITHUB_TOKEN environment variable to increase your rate limit."

DetailNotFound == "Repository not found."

DetailGeneric == "Error fetching issues from GitHub."

Detail403Unconditional(token) == Detail403RateLimit

Detail403(token) ==
    IF TokenTruthy(token) THEN Detail403Token ELSE Detail403RateLimit

RaisedOnlyKnownStatuses(resp, issues, token) ==
    IF resp.status_code = 403
    THEN Some([status_code |-> 403, detail |-> Detail403(token)])
    ELSE IF resp.status_code = 404 /\ issues = << >>
    THEN Some([status_code |-> 404, detail |-> DetailNotFound])
    ELSE None

\* the HTTPException one response makes the loop raise, if any
Raised(resp, issues, token) ==
    IF resp.status_code = 403
    THEN Some([status_code |-> 403, detail |-> Detail403(token)])
    ELSE IF resp.status_code = 404 /\ issues = << >>
    THEN Some([status_code |-> 404, detail |-> DetailNotFound])
    ELSE IF resp.status_code # 200
    THEN Some([status_code |-> resp.status_code, detail |-> DetailGeneric])
    ELSE None

NextUrlFromLast(headers) == DictGet(parse_link_header(headers), Chars_last)

\* links = parse_link_header(response.headers); url = links.get("next")
NextUrl(headers) == DictGet(parse_link_header(headers), Chars_next)

---------------------------------------------------------------------------
(* Response assembler and sort / paginate stage: list_repo_issues *)

IsPullRequest(issue) == issue.pull_request # None

\* the ScoredIssue of one raw issue (title, user, state, updated_at and
\* html_url are copied verbatim like id and number and are left out)
Score(issue) ==
    LET ls == Get(issue.labels, << >>)
    IN  [id |-> issue.id, number |-> issue.number,
         created_at |-> issue.created_at,
         labels |-> [i \in 1..Len(ls) |-> Lower(ls[i].name)],
         priority_score |-> calculate_priority_score(issue),
         friendliness_score |-> compute_friendliness_score(issue)]

RECURSIVE Assemble(_)
Assemble(raw) ==
    IF raw = << >> THEN << >>
    ELSE IF IsPullRequest(Head(raw)) THEN Assemble(Tail(raw))
    ELSE <<Score(Head(raw))>> \o Assemble(Tail(raw))

\* a < b on str
LexLess(a, b) ==
    \/ \E i \in 1..Min(Len(a), Len(b)) :
          /\ a[i] < b[i]
          /\ \A j \in 1..(i - 1) : a[j] = b[j]
    \/ /\ Len(a) < Len(b)
       /\ \A j \in 1..Len(a) : a[j] = b[j]

\* key_fn(a) < key_fn(b)
KeyLess(sort_by, a, b) ==
    IF sort_by = "priority" THEN a.priority_score < b.priority_score
    ELSE IF sort_by = "friendliness"
    THEN a.friendliness_score < b.friendliness_score
    ELSE LexLess(a.created_at, b.created_at)

\* insertion into an ascending list after every element not greater than x
InsertSorted(t, x, sort_by) ==
    LET k == Cardinality({i \in 1..Len(t) : ~KeyLess(sort_by, x, t[i])})
    IN  SubSeq(t, 1, k) \o <<x>> \o SubSeq(t, k + 1, Len(t))

\* list.sort without reverse: stable, ascending, comparing with < only
RECURSIVE SortAsc(_, _)
SortAsc(xs, sort_by) ==
    IF xs = << >> THEN << >>
    ELSE InsertSorted(SortAsc(SubSeq(xs, 1, Len(xs) - 1), sort_by),
                      xs[Len(xs)], sort_by)

SortedReverseLast(xs, sort_by, reverse) ==
    IF reverse THEN Reverse(SortAsc(xs, sort_by)) ELSE SortAsc(xs, sort_by)

SortedIgnoringReverse(xs, sort_by, reverse) == SortAsc(xs, sort_by)

\* sorted(xs, key=key_fn, reverse=reverse): with reverse the list is reversed,
\* sorted ascending and reversed again, which keeps equal keys in input order
Sorted(xs, sort_by, reverse) ==
    IF reverse THEN Reverse(SortAsc(Reverse(xs), sort_by))
    ELSE SortAsc(xs, sort_by)

TotalIssuesOfRaw(sorted, raw) == Len(raw)

\* total_issues = len(sorted_issues)
TotalIssues(sorted, raw) == Len(sorted)

PaginateLimitAsStop(sorted, offset, limit) == Slice(sorted, offset, limit)

\* sorted_issues[offset:offset + limit]
Paginate(sorted, offset, limit) == Slice(sorted, offset, offset + limit)

---------------------------------------------------------------------------
(* Actions *)

\* a request arrives: list_repo_issues calls get_all_github_issues, which
\* sets up its locals (lines 143-152, 102-108)
list_repo_issues_call(Queries) ==
    /\ pc = "idle"
    /\ \E q \in Queries : query' = Some(q)
    /\ all_issues' = << >>
    /\ url' = Some(IssuesUrl(Owner, Repo))
    /\ is_first_request' = TRUE
    /\ pc' = "loop"
    /\ UNCHANGED <<GITHUB_TOKEN, upstream, requests, served, scored_issues,
                   sorted_issues, response, score_input, score_out>>

\* one iteration of "while url" (lines 111-137): a request, its response,
\* and either a raised HTTPException or the accumulation of the page
get_all_github_issues_page ==
    /\ pc = "loop"
    /\ Truthy(url)
    /\ LET req == [url |-> url[1], params |-> RequestParams(is_first_request),
                   headers |-> RequestHeaders(GITHUB_TOKEN)]
           k == Serve(upstream, req)
           resp == ResponseOf(upstream, k)
           exc == Raised(resp, all_issues, GITHUB_TOKEN)
       IN  /\ requests' = Append(requests, req)
           /\ served' = Append(served, k)
           /\ is_first_request' = FALSE
           /\ IF exc # None
              THEN /\ response' = exc
                   /\ pc' = "done"
                   /\ UNCHANGED <<all_issues, url>>
              ELSE /\ all_issues' = all_issues \o resp.json
                   /\ url' = NextUrl(resp.headers)
                   /\ UNCHANGED <<response, pc>>
    /\ UNCHANGED <<GITHUB_TOKEN, upstream, query, scored_issues, sorted_issues,
                   score_input, score_out>>

\* the loop ends, get_all_github_issues returns, and list_repo_issues
\* filters, scores, sorts, slices and answers (lines 139, 154-191)
list_repo_issues_return ==
    /\ pc = "loop"
    /\ ~Truthy(url)
    /\ LET scored == Assemble(all_issues)
           sorted == Sorted(scored, query[1].sort_by,
                            query[1].direction = "desc")
       IN  /\ scored_issues' = scored
           /\ sorted_issues' = sorted
           /\ response' =
                Some([status_code |-> 200, owner |-> Owner, repo |-> Repo,
                      total_issues |-> TotalIssues(sorted, all_issues),
                      issues |-> Paginate(sorted, query[1].offset,
                                          query[1].limit)])
    /\ pc' = "done"
    /\ UNCHANGED <<GITHUB_TOKEN, upstream, query, url, is_first_request,
                   all_issues, requests, served, score_input, score_out>>

\* the scoring functions applied to an issue dict
calculate_priority_score_call ==
    /\ pc = "score"
    /\ score_out.priority = None
    /\ score_out' = [score_out EXCEPT
                       !.priority = Some(calculate_priority_score(score_input))]
    /\ UNCHANGED <<GITHUB_TOKEN, upstream, pc, query, url, is_first_request,
                   all_issues, requests, served, scored_issues, sorted_issues,
                   response, score_input>>

compute_friendliness_score_call ==
    /\ pc = "score"
    /\ score_out.friendliness = None
    /\ score_out' = [score_out EXCEPT
                       !.friendliness =
                           Some(compute_friendliness_score(score_input))]
    /\ UNCHANGED <<GITHUB_TOKEN, upstream, pc, query, url, is_first_request,
                   all_issues, requests, served, scored_issues, sorted_issues,
                   response, score_input>>

---------------------------------------------------------------------------
(* Specifications *)

Tokens == {None, Some(""), Some("ghp_t")}

\* sort_by is a SortBy, direction matches ^(asc|desc)$, 1 <= limit <= 100,
\* offset >= 0 (lines 146-149)
SortQueries ==
    [sort_by : {"priority", "friendliness", "created_at"},
     direction : {"asc", "desc"},
     limit : {1, 2, 100},
     offset : 0..MaxOffset]

\* the defaults of the query parameters (lines 146-149)
DefaultQuery ==
    [sort_by |-> "priority", direction |-> "desc", limit |-> 25, offset |-> 0]

FetchQueries == {DefaultQuery}

\* what one page of the fetch scenarios may hold
FetchBodies == {<< >>, <<P_bug>>, <<P_pr, P_gfi>>}

Failures(n) ==
    {None} \cup {Some([page |-> k, status |-> st]) :
                   k \in 1..n, st \in {403, 404, 500}}

\* upstreams of 1..MaxPages pages of which at most one answers an error
FetchUpstreams ==
    UNION {{MakeUpstream(NumberPages(pp), f) :
              pp \in [1..n -> FetchBodies], f \in Failures(n)} :
           n \in 1..MaxPages}

\* healthy upstreams listing up to MaxIssues issues, MaxPerPage to a page
SortUpstreams ==
    {MakeUpstream(NumberPages(Chunks(l)), None) :
       l \in SeqsUpTo(Profiles, MaxIssues)}

InitPipeline ==
    /\ pc = "idle"
    /\ query = None
    /\ url = None
    /\ is_first_request = TRUE
    /\ all_issues = << >>
    /\ requests = << >>
    /\ served = << >>
    /\ scored_issues = << >>
    /\ sorted_issues = << >>
    /\ response = None
    /\ score_input = None
    /\ score_out = None

InitFetch ==
    /\ GITHUB_TOKEN \in Tokens
    /\ upstream \in FetchUpstreams
    /\ InitPipeline

InitSort ==
    /\ GITHUB_TOKEN = None
    /\ upstream \in SortUpstreams
    /\ InitPipeline

NextFetch ==
    \/ list_repo_issues_call(FetchQueries)
    \/ get_all_github_issues_page
    \/ list_repo_issues_return

NextSort ==
    \/ list_repo_issues_call(SortQueries)
    \/ get_all_github_issues_page
    \/ list_repo_issues_return

SpecFetch == InitFetch /\ [][NextFetch]_vars

SpecSort == InitSort /\ [][NextSort]_vars

BodyValues == {None, Some(None), Some(Some(0)), Some(Some(300)), Some(Some(301))}

ScoreInputs ==
    [labels : {None} \cup {Some(ls) : ls \in SeqsUpTo([name : LabelNames], MaxLabels)},
     comments : {None} \cup {Some(c) : c \in 0..MaxComments},
     body : BodyValues]

InitScore ==
    /\ GITHUB_TOKEN = None
    /\ upstream = << >>
    /\ pc = "score"
    /\ query = None
    /\ url = None
    /\ is_first_request = TRUE
    /\ all_issues = << >>
    /\ requests = << >>
    /\ served = << >>
    /\ scored_issues = << >>
    /\ sorted_issues = << >>
    /\ response = None
    /\ score_input \in ScoreInputs
    /\ score_out = [priority |-> None, friendliness |-> None]

NextScore ==
    \/ calculate_priority_score_call
    \/ compute_friendliness_score_call

SpecScore == InitScore /\ [][NextScore]_vars

---------------------------------------------------------------------------
(* Vocabulary of the properties *)

Succeeded == pc = "done" /\ response # None /\ response[1].status_code = 200

Failed == pc = "done" /\ response # None /\ response[1].status_code # 200

\* the status the upstream gave to the i-th request
StatusOf(i) ==
    IF served[i] = 0 THEN 404 ELSE upstream[served[i]].status

\* the raw issues of the pages fetched so far, in page order
FetchedRaw ==
    Concat([i \in 1..Len(served) |->
              IF served[i] # 0 /\ upstream[served[i]].status = 200
              THEN upstream[served[i]].body ELSE << >>])

NonPRPositions == {i \in 1..Len(FetchedRaw) : FetchedRaw[i].pull_request = None}

\* position in fetch order of the issue with this id
FetchPos(id) == CHOOSE i \in 1..Len(FetchedRaw) : FetchedRaw[i].id = id

KeyEqual(sort_by, a, b) == ~KeyLess(sort_by, a, b) /\ ~KeyLess(sort_by, b, a)

HasTie(sort_by, xs) ==
    \E i, j \in 1..Len(xs) : i < j /\ KeyEqual(sort_by, xs[i], xs[j])

HasDistinctKeys(sort_by, xs) ==
    \E i, j \in 1..Len(xs) : KeyLess(sort_by, xs[i], xs[j])

\* the URL of the "next" relation a page advertises, as the upstream holds it
AdvertisedNext(page) ==
    {page.links[j].url : j \in {h \in 1..Len(page.links) :
                                  page.links[h].rel = Chars_next}}

Healthy(pages) == \A k \in 1..Len(pages) : pages[k].status = 200

---------------------------------------------------------------------------
(* Properties *)

\* C1: on success total_issues is the number of fetched raw issues without a
\* pull_request key, whatever the query is, and no fetched issue carrying a
\* pull_request key is among the returned issues.
C1_TotalCountsNonPullRequests ==
    Succeeded =>
        /\ response[1].total_issues = Cardinality(NonPRPositions)
        /\ \A j \in 1..Len(response[1].issues) :
              \A i \in 1..Len(FetchedRaw) :
                 FetchedRaw[i].pull_request # None
                    => response[1].issues[j].id # FetchedRaw[i].id

C1_Witness ==
    /\ Succeeded
    /\ Len(served) >= 2
    /\ Cardinality(NonPRPositions) < Len(FetchedRaw)
    /\ query[1].offset > 0
    /\ Len(response[1].issues) >= 1
    /\ Len(response[1].issues) < response[1].total_issues

\* C2: sort first, slice second: sorted_issues holds every non-PR issue in
\* key order of the requested direction, the returned issues are its elements
\* offset+1 .. offset+limit as far as they exist, and the returned length is
\* max(0, min(limit, total_issues - offset)).
C2_SliceOfSortedSequence ==
    Succeeded =>
        LET q == query[1]
            total == response[1].total_issues
            out == response[1].issues
        IN  /\ Len(sorted_issues) = Cardinality(NonPRPositions)
            /\ {sorted_issues[i].id : i \in 1..Len(sorted_issues)}
                 = {FetchedRaw[i].id : i \in NonPRPositions}
            /\ \A i, j \in 1..Len(sorted_issues) :
                  i < j =>
                     IF q.direction = "desc"
                     THEN ~KeyLess(q.sort_by, sorted_issues[i], sorted_issues[j])
                     ELSE ~KeyLess(q.sort_by, sorted_issues[j], sorted_issues[i])
            /\ Len(out) = Max(0, Min(q.limit, total - q.offset))
            /\ \A k \in 1..Len(out) : out[k] = sorted_issues[q.offset + k]

C2_Witness ==
    /\ Succeeded
    /\ query[1].offset > 0
    /\ query[1].offset < response[1].total_issues
    /\ query[1].offset + query[1].limit > response[1].total_issues
    /\ query[1].limit = 2
    /\ Len(response[1].issues) = 1
    /\ HasDistinctKeys(query[1].sort_by, scored_issues)
    /\ sorted_issues # scored_issues

\* C3: in both directions and for every sort key, two issues with equal key
\* values stand in sorted_issues in the order in which they were fetched.
C3_SortIsStable ==
    Succeeded =>
        \A i, j \in 1..Len(sorted_issues) :
           (i < j /\ KeyEqual(query[1].sort_by, sorted_issues[i], sorted_issues[j]))
              => FetchPos(sorted_issues[i].id) < FetchPos(sorted_issues[j].id)

C3_Witness ==
    /\ Succeeded
    /\ query[1].direction = "desc"
    /\ Len(served) >= 2
    /\ HasTie(query[1].sort_by, sorted_issues)
    /\ HasDistinctKeys(query[1].sort_by, sorted_issues)

\* C4: the first request goes to the issues URL with state=open and
\* per_page=100; every later request goes, without params, to the URL of the
\* "next" relation of the page answered just before, which was a 200; the
\* loop ends on a 200 page without "next"; and against a healthy upstream of
\* N pages the fetch makes N requests, page 1 to page N in order, and
\* accumulates the page bodies concatenated in that order.
C4_SequentialPagination ==
    /\ Len(requests) = Len(served)
    /\ Len(requests) >= 1 =>
          /\ requests[1].url = IssuesUrl(Owner, Repo)
          /\ requests[1].params = Some([state |-> "open", per_page |-> 100])
    /\ \A i \in 2..Len(requests) :
          /\ served[i - 1] # 0
          /\ upstream[served[i - 1]].status = 200
          /\ AdvertisedNext(upstream[served[i - 1]]) = {requests[i].url}
          /\ requests[i].params = None
    /\ Succeeded =>
          /\ StatusOf(Len(served)) = 200
          /\ AdvertisedNext(upstream[served[Len(served)]]) = {}
    /\ (pc = "done" /\ Healthy(upstream)) =>
          /\ Succeeded
          /\ served = [k \in 1..Len(upstream) |-> k]
          /\ all_issues = Concat([k \in 1..Len(upstream) |-> upstream[k].body])
          /\ response[1].total_issues =
                Cardinality({i \in 1..Len(all_issues) :
                               all_issues[i].pull_request = None})

C4_Witness ==
    /\ Succeeded
    /\ Len(upstream) = 2
    /\ Len(upstream[1].body) = 1
    /\ Len(upstream[2].body) = 1
    /\ Len(requests) = 2
    /\ response[1].total_issues = 2

\* C5: a 404 fails with NotFound only as the answer to the first request; a
\* 404 answering a later request fails with status 404 and the generic
\* message, also when the pages before it held no issues.
C5_NotFoundOnlyOnFirstPage ==
    (pc = "done" /\ Len(served) >= 1 /\ StatusOf(Len(served)) = 404) =>
        response[1] = [status_code |-> 404,
                       detail |-> IF Len(served) = 1 THEN DetailNotFound
                                  ELSE DetailGeneric]

\* C6: a non-200 answer is the last one of the fetch (no retry, no later
\* page), the request fails with the upstream status, and nothing
\* accumulated is returned, scored or counted.
C6_ErrorAbortsFetch ==
    \A i \in 1..Len(served) :
       StatusOf(i) # 200 =>
          /\ i = Len(served)
          /\ i = Len(requests)
          /\ pc = "done"
          /\ response # None
          /\ response[1].status_code = StatusOf(i)
          /\ DOMAIN response[1] = {"status_code", "detail"}
          /\ scored_issues = << >>
          /\ sorted_issues = << >>

C6_Witness ==
    /\ Failed
    /\ Len(served) = 3
    /\ StatusOf(3) = 500
    /\ Len(all_issues) >= 2
    /\ Len(upstream) = 3

\* C7: a 403 on any page fails the request with status 403; the detail is the
\* rate-limit message exactly when no credential is configured (GITHUB_TOKEN
\* unset or empty) and the invalid-token message exactly when one is.
C7_ForbiddenDetailFollowsCredential ==
    \A i \in 1..Len(served) :
       StatusOf(i) = 403 =>
          /\ pc = "done"
          /\ response # None
          /\ response[1].status_code = 403
          /\ response[1].detail \in {Detail403RateLimit, Detail403Token}
          /\ response[1].detail = Detail403RateLimit
                <=> GITHUB_TOKEN \in {None, Some("")}
          /\ response[1].detail = Detail403Token
                <=> GITHUB_TOKEN \notin {None, Some("")}
          /\ requests[i].headers.Authorization # None
                <=> response[1].detail = Detail403Token

C7_Witness ==
    /\ Failed
    /\ Len(served) >= 2
    /\ StatusOf(Len(served)) = 403
    /\ all_issues # << >>
    /\ GITHUB_TOKEN = Some("ghp_t")
    /\ response[1].detail = Detail403Token

\* C9: the error bodies are those the tests assert: a first-page 404 answers
\* 404 with detail "Repository not found", a 500 answers 500 with detail
\* "Error fetching issues from GitHub".
C9_ErrorBodiesAsTested ==
    /\ (pc = "done" /\ Len(served) = 1 /\ StatusOf(1) = 404) =>
          response[1] = [status_code |-> 404, detail |-> "Repository not found"]
    /\ (pc = "done" /\ Len(served) >= 1 /\ StatusOf(Len(served)) = 500) =>
          response[1] = [status_code |-> 500,
                         detail |-> "Error fetching issues from GitHub"]

\* C10 as stated: with direction=desc the sorted sequence is the reverse of
\* the stable ascending sort of the same input, equal keys included.
C10_DescIsReverseOfStableAsc ==
    (Succeeded /\ query[1].direction = "desc") =>
        sorted_issues = Reverse(SortAsc(scored_issues, query[1].sort_by))

\* C10 amended: with direction=desc the sorted sequence carries at every
\* position the key value the reverse of the stable ascending sort carries
\* there, it is that reverse whenever no two issues have equal keys, and
\* issues with equal keys stay in fetch order.
C10_DescReversesKeysNotTies ==
    (Succeeded /\ query[1].direction = "desc") =>
        LET by == query[1].sort_by
            rev == Reverse(SortAsc(scored_issues, by))
        IN  /\ Len(sorted_issues) = Len(rev)
            /\ \A i \in 1..Len(rev) : KeyEqual(by, sorted_issues[i], rev[i])
            /\ ~HasTie(by, scored_issues) => sorted_issues = rev
            /\ \A i, j \in 1..Len(sorted_issues) :
                  (i < j /\ KeyEqual(by, sorted_issues[i], sorted_issues[j]))
                     => FetchPos(sorted_issues[i].id)
                          < FetchPos(sorted_issues[j].id)

C10_Witness ==
    /\ Succeeded
    /\ query[1].direction = "desc"
    /\ Len(sorted_issues) = 3
    /\ HasTie(query[1].sort_by, scored_issues)
    /\ HasDistinctKeys(query[1].sort_by, scored_issues)
    /\ sorted_issues # Reverse(SortAsc(scored_issues, query[1].sort_by))

\* whether the issue under test carries a label spelled as one of names
HasLabel(names) ==
    /\ score_input.labels # None
    /\ \E i \in 1..Len(score_input.labels[1]) :
          score_input.labels[1][i].name \in names

B(cond) == IF cond THEN 1 ELSE 0

InputComments == IF score_input.comments = None THEN 0 ELSE score_input.comments[1]

InputBodyLen ==
    IF score_input.body = None \/ score_input.body[1] = None THEN 0
    ELSE score_input.body[1][1]

\* the issue under test with its labels in every other order
Reorderings ==
    IF score_input.labels = None THEN {score_input}
    ELSE LET ls == score_input.labels[1]
         IN  {[score_input EXCEPT !.labels = Some([i \in 1..Len(ls) |-> ls[f[i]]])] :
                f \in {g \in [1..Len(ls) -> 1..Len(ls)] :
                         \A a, b \in 1..Len(ls) : a # b => g[a] # g[b]}}

\* C8: in tenths, calculate_priority_score returns 30*[bug] + 40*[critical or
\* high priority] + 10*[enhancement or feature] + 3*min(comments, 10), the
\* comment part never above 30; compute_friendliness_score returns
\* max(0, 30*[good first issue or help wanted] - 10*[bug] - 20*[comments > 5]
\* + 10*[body longer than 300]) and is never negative; labels match in any
\* letter case and neither result changes when the labels are reordered.
C8_ScoreFormulas ==
    LET bug == B(HasLabel({"bug", "BUG"}))
        urgent == B(HasLabel({"critical", "High Priority"}))
        feature == B(HasLabel({"enhancement", "feature"}))
        friendly == B(HasLabel({"Good First Issue", "help wanted"}))
        byLabels == 30 * bug + 40 * urgent + 10 * feature
        rawFriendly == 30 * friendly - 10 * bug
                         - 20 * B(InputComments > 5) + 10 * B(InputBodyLen > 300)
    IN  /\ (pc = "score" /\ score_out.priority # None) =>
              /\ score_out.priority[1]
                   = byLabels + 3 * (IF InputComments < 10 THEN InputComments ELSE 10)
              /\ score_out.priority[1] - byLabels <= 30
              /\ \A r \in Reorderings :
                    calculate_priority_score(r) = score_out.priority[1]
        /\ (pc = "score" /\ score_out.friendliness # None) =>
              /\ score_out.friendliness[1]
                   = (IF rawFriendly > 0 THEN rawFriendly ELSE 0)
              /\ score_out.friendliness[1] >= 0
              /\ \A r \in Reorderings :
                    compute_friendliness_score(r) = score_out.friendliness[1]

C8_Witness ==
    /\ pc = "score"
    /\ score_out.priority = Some(100)
    /\ score_out.friendliness = Some(0)
    /\ score_input.labels = Some(<<[name |-> "High Priority"], [name |-> "BUG"]>>)
    /\ score_input.comments = Some(11)
    /\ score_input.body = Some(Some(301))

====
